---------------------------- MODULE Spec2Model ----------------------------
(***************************************************************************)
(* VoteX: Pedersen commitment + dual-base Schnorr proof, on-chain verifier *)
(* (ZKProofVerifier, Solidity) and off-chain prover/verifier (VoteProof,   *)
(* VoteCrypto, ECUtils, TypeScript).                                       *)
(*                                                                         *)
(* The curve is y^2 = x^3 + 3 with base point G = (1, 2), as in the code.  *)
(* bn254's 254-bit P and N are scaled down to the smallest prime field     *)
(* over which that curve has prime order with N < P (P = 19, N = 13), and  *)
(* the 32-byte word is scaled down to WordBytes bytes, so that every       *)
(* input class (coordinate >= P, scalar >= N, off-curve point, digest      *)
(* = 0 mod N, doubling inside ecAdd, ...) is reached by model checking.    *)
(* Bytes stay 8 bits wide and hex digits stay base 16.                     *)
(***************************************************************************)
EXTENDS Integers, Sequences, FiniteSets, TLC

\* ----------------------------------------------------------------------
\* Curve parameters (scaled) and layout constants
\* ----------------------------------------------------------------------
P == 19
N == 13
B == 3
G1_X == 1
G1_Y == 2
\* auxiliary point H = 5*G on the scaled curve
H_X == 3
H_Y == 12

HexBase == 16
ByteBase == HexBase * HexBase
\* bytes per encoded word (32 in the code)
WordBytes == 2
\* C(2 words) + R(2 words) + s + s'  (192 = 6 * 32 in the code)
SCHNORR_PROOF_LENGTH == 6 * WordBytes
WordMod == ByteBase ^ WordBytes

\* bounds of the explored inputs
MaxOption == 1
MaxVoteId == 1
MaxNonce == 4

\* option identifiers handed to the prover: below, inside and above [1, N-1]
OptionIds == (-1..MaxOption) \cup {N, N + 1}
VoteIds == 0..MaxVoteId
Scalars == 1..(N - 1)
Nonces == 1..MaxNonce

\* ----------------------------------------------------------------------
\* Byte / hex conversions
\* ----------------------------------------------------------------------
RECURSIVE bytesToNumberBE(_)
\* @noble bytesToNumberBE, and the EVM's calldataload / uint256(bytes32)
bytesToNumberBE(bytes) ==
    IF Len(bytes) = 0 THEN 0
    ELSE bytesToNumberBE(SubSeq(bytes, 1, Len(bytes) - 1)) * ByteBase
         + bytes[Len(bytes)]

RECURSIVE toString16(_)
\* bigint.toString(16): hex digits, most significant first, no leading zero
toString16(n) ==
    IF n < HexBase THEN <<n>>
    ELSE Append(toString16(n \div HexBase), n % HexBase)

RECURSIVE parseHex(_)
\* BigInt('0x' + hex) / parseInt(hex, 16) on a digit string
parseHex(hex) ==
    IF Len(hex) = 0 THEN 0
    ELSE parseHex(SubSeq(hex, 1, Len(hex) - 1)) * HexBase + hex[Len(hex)]

RECURSIVE bytesToHex(_)
\* VoteProof.bytesToHex: every byte as two digits (padStart(2, '0'))
bytesToHex(bytes) ==
    IF Len(bytes) = 0 THEN <<>>
    ELSE <<Head(bytes) \div HexBase, Head(bytes) % HexBase>>
         \o bytesToHex(Tail(bytes))

\* hexToBytes writing the bytes from index 0 (no right alignment)
hexToBytes_LeftAligned(hex, targetLength) ==
    LET cleanHex == IF Len(hex) % 2 # 0 THEN <<0>> \o hex ELSE hex
        n == Len(cleanHex) \div 2
    IN [j \in 1..targetLength |->
          IF j - 1 < n
          THEN parseHex(SubSeq(cleanHex, 2 * j - 1, 2 * j))
          ELSE 0]

\* VoteProof.hexToBytes(hex, targetLength): left-pad to an even number of
\* digits, then write the bytes right-aligned into a zeroed array; a write
\* to an index outside the typed array is ignored.
hexToBytes(hex, targetLength) ==
    LET cleanHex == IF Len(hex) % 2 # 0 THEN <<0>> \o hex ELSE hex
        n == Len(cleanHex) \div 2
        offset == targetLength - n
    IN [j \in 1..targetLength |->
          LET i == j - 1 - offset
          IN IF i >= 0 /\ i < n
             THEN parseHex(SubSeq(cleanHex, 2 * i + 1, 2 * i + 2))
             ELSE 0]

RECURSIVE padStart(_, _)
\* String.padStart(width, '0') on a digit string
padStart(hex, width) ==
    IF Len(hex) >= width THEN hex ELSE padStart(<<0>> \o hex, width)

\* ECUtils.encodeBigIntToBytes: padStart to 2*WordBytes digits, then parse
\* the first WordBytes digit pairs
encodeBigIntToBytes(value) ==
    LET hex == padStart(toString16(value), 2 * WordBytes)
    IN [i \in 1..WordBytes |-> parseHex(SubSeq(hex, 2 * i - 1, 2 * i))]

RECURSIVE shiftRightBytes(_, _)
shiftRightBytes(x, k) ==
    IF k = 0 THEN x ELSE shiftRightBytes(x \div ByteBase, k - 1)

\* EVM mstore of a uint256: the word as big-endian bytes
mstoreWord(v) ==
    [i \in 1..WordBytes |-> shiftRightBytes(v % WordMod, WordBytes - i) % ByteBase]

\* EVM calldataload(proof.offset + 32 * w): word w (0-based) of the proof
calldataload(proof, w) ==
    bytesToNumberBE(SubSeq(proof, w * WordBytes + 1, (w + 1) * WordBytes))

\* ----------------------------------------------------------------------
\* Keccak-256, abstracted: a fixed mixing function from a byte string to
\* a WordBytes-byte digest (the same function on both sides, as in the code)
\* ----------------------------------------------------------------------
RECURSIVE keccakMix(_, _)
keccakMix(h, data) ==
    IF Len(data) = 0 THEN h
    ELSE keccakMix((h * 101 + Head(data) * 53 + Len(data) * 11 + 29) % WordMod,
                   Tail(data))

keccak256(data) == mstoreWord(keccakMix(7, data))

\* ----------------------------------------------------------------------
\* Field and group arithmetic
\* ----------------------------------------------------------------------
mulmod(a, b, m) == (a * b) % m
addmod(a, b, m) == (a + b) % m

Infinity == <<0, 0>>
\* marker of a reverted / thrown point computation
Failed == <<-1, -1>>
G1 == <<G1_X, G1_Y>>
H == <<H_X, H_Y>>

\* (an isOnCurve without the range test)
isOnCurve_NoRangeCheck(x, y) ==
    mulmod(y, y, P) = addmod(mulmod(mulmod(x, x, P), x, P), B, P)

\* ZKProofVerifier.isOnCurve
isOnCurve(x, y) ==
    IF x >= P \/ y >= P THEN FALSE
    ELSE mulmod(y, y, P) = addmod(mulmod(mulmod(x, x, P), x, P), B, P)

\* ECUtils.isOnCurve on the affine coordinates of the point
ECUtils_isOnCurve(point) ==
    LET x == point[1]
        y == point[2]
    IN IF x < 0 \/ x >= P \/ y < 0 \/ y >= P THEN FALSE
       ELSE ((y * y) % P) = ((((((x * x) % P) * x) % P) + B) % P)

RECURSIVE modInvLoop(_, _, _, _)
modInvLoop(result, base, power, m) ==
    IF power = 0 THEN result
    ELSE modInvLoop(IF power % 2 = 1 THEN mulmod(result, base, m) ELSE result,
                    mulmod(base, base, m), power \div 2, m)

\* ZKProofVerifier.modInv: a^(m-2) mod m; -1 stands for the revert on zero
modInv(a, m) ==
    IF a = 0 \/ a % m = 0 THEN -1
    ELSE modInvLoop(1, a % m, m - 2, m)

\* The group law of the curve, as computed by the bn128 precompiles and by
\* @noble/curves on valid points
CurvePoints == {pt \in (0..(P - 1)) \X (0..(P - 1)) : isOnCurve(pt[1], pt[2])}
GroupElems == CurvePoints \cup {Infinity}

GroupAddRaw(p1, p2) ==
    IF p1 = Infinity THEN p2
    ELSE IF p2 = Infinity THEN p1
    ELSE IF p1[1] = p2[1] /\ (p1[2] + p2[2]) % P = 0 THEN Infinity
    ELSE LET lam == IF p1 = p2
                    THEN mulmod(3 * p1[1] * p1[1], modInv(2 * p1[2], P), P)
                    ELSE mulmod(p2[2] - p1[2] + P,
                                modInv(p2[1] - p1[1] + P, P), P)
             x3 == (lam * lam + 2 * P - p1[1] - p2[1]) % P
             y3 == (lam * (p1[1] + P - x3) + P - p1[2]) % P
         IN <<x3, y3>>

GroupAdd == [p1 \in GroupElems, p2 \in GroupElems |-> GroupAddRaw(p1, p2)]

RECURSIVE GroupMulRaw(_, _)
GroupMulRaw(p, k) ==
    IF k = 0 THEN Infinity ELSE GroupAdd[GroupMulRaw(p, k - 1), p]

GroupMul == [p \in GroupElems, k \in 0..(N - 1) |-> GroupMulRaw(p, k)]


\* ----------------------------------------------------------------------
\* On-chain verifier: ZKProofVerifier
\* ----------------------------------------------------------------------
\* bn128 add precompile (address 0x6): fails on an input that is not a point
bn128Add(p1, p2) ==
    IF p1 \in GroupElems /\ p2 \in GroupElems THEN GroupAdd[p1, p2] ELSE Failed

\* bn128 mul precompile (address 0x7): on failure the result buffer stays zero
bn128Mul(p, k) ==
    IF p \in GroupElems THEN GroupMul[p, k % N] ELSE Infinity

\* ZKProofVerifier.ecDouble
ecDouble(p) ==
    IF (p[1] = 0 /\ p[2] = 0) \/ p[2] = 0 THEN Infinity
    ELSE LET xCubed == mulmod(mulmod(p[1], p[1], P), p[1], P)
             doubleY == addmod(p[2], p[2], P)
             s0 == mulmod(3, xCubed, P)
             doubleYInv == modInv(doubleY, P)
             s == mulmod(s0, doubleYInv, P)
             rx0 == mulmod(s, s, P)
             doublePx == addmod(p[1], p[1], P)
             rx == addmod(rx0, P - doublePx, P)
             ry0 == addmod(p[1], P - rx, P)
             ry1 == mulmod(s, ry0, P)
             ry == addmod(ry1, P - p[2], P)
         IN IF doubleYInv = -1 THEN Failed ELSE <<rx, ry>>

\* (an ecAdd that leaves the doubling of equal points to the precompile)
ecAdd_DoublesByPrecompile(p1, p2) ==
    IF p1 = Failed \/ p2 = Failed THEN Failed
    ELSE IF p1[1] = 0 /\ p1[2] = 0 THEN p2
    ELSE IF p2[1] = 0 /\ p2[2] = 0 THEN p1
    ELSE IF p1[1] = p2[1] /\ p1[2] # p2[2] THEN Infinity
    ELSE bn128Add(p1, p2)

\* ZKProofVerifier.ecAdd
ecAdd(p1, p2) ==
    IF p1 = Failed \/ p2 = Failed THEN Failed
    ELSE IF p1[1] = 0 /\ p1[2] = 0 THEN p2
    ELSE IF p2[1] = 0 /\ p2[2] = 0 THEN p1
    ELSE IF p1[1] = p2[1] /\ p1[2] = p2[2] THEN ecDouble(p1)
    ELSE IF p1[1] = p2[1] /\ p1[2] # p2[2] THEN Infinity
    ELSE bn128Add(p1, p2)

\* (an ecMul without the two require(isOnCurve) tests)
ecMul_NoCurveChecks(p, scalar) ==
    IF scalar = 0 \/ (p[1] = 0 /\ p[2] = 0) THEN Infinity
    ELSE IF scalar = 1 THEN p
    ELSE LET scalarModN == scalar % N
         IN IF scalarModN = 0 THEN Infinity
            ELSE IF scalarModN = 1 THEN p
            ELSE bn128Mul(p, scalarModN)

\* ZKProofVerifier.ecMul
ecMul(p, scalar) ==
    IF scalar = 0 \/ (p[1] = 0 /\ p[2] = 0) THEN Infinity
    ELSE IF scalar = 1 THEN p
    ELSE LET scalarModN == scalar % N
         IN IF scalarModN = 0 THEN Infinity
            ELSE IF scalarModN = 1 THEN p
            ELSE IF ~isOnCurve(p[1], p[2]) THEN Failed
            ELSE LET r == bn128Mul(p, scalarModN)
                 IN IF isOnCurve(r[1], r[2]) THEN r ELSE Failed

\* ZKProofVerifier.computeChallenge
computeChallenge(R, commPoint, voteId) ==
    LET preHash == keccak256(mstoreWord(R[1]) \o mstoreWord(R[2])
                             \o mstoreWord(commPoint[1])
                             \o mstoreWord(commPoint[2])
                             \o mstoreWord(voteId))
    IN bytesToNumberBE(preHash) % N

\* extractProofComponents without the range check of s and s'
extractProofComponents_NoScalarCheck(proof) ==
    IF Len(proof) # SCHNORR_PROOF_LENGTH THEN [ok |-> FALSE]
    ELSE LET cx == calldataload(proof, 0)
             cy == calldataload(proof, 1)
             rx == calldataload(proof, 2)
             ry == calldataload(proof, 3)
         IN IF ~(cx < P) \/ ~(cy < P) THEN [ok |-> FALSE]
            ELSE IF ~(rx < P) \/ ~(ry < P) THEN [ok |-> FALSE]
            ELSE [ok |-> TRUE, commPoint |-> <<cx, cy>>, R |-> <<rx, ry>>,
                  s |-> calldataload(proof, 4),
                  sPrime |-> calldataload(proof, 5)]

\* ZKProofVerifier.extractProofComponents
extractProofComponents(proof) ==
    IF Len(proof) # SCHNORR_PROOF_LENGTH THEN [ok |-> FALSE]
    ELSE LET cx == calldataload(proof, 0)
             cy == calldataload(proof, 1)
             rx == calldataload(proof, 2)
             ry == calldataload(proof, 3)
             s == calldataload(proof, 4)
             sPrime == calldataload(proof, 5)
         IN IF ~(cx < P) \/ ~(cy < P) THEN [ok |-> FALSE]
            ELSE IF ~(rx < P) \/ ~(ry < P) THEN [ok |-> FALSE]
            ELSE IF ~(s < N) \/ ~(sPrime < N) THEN [ok |-> FALSE]
            ELSE [ok |-> TRUE, commPoint |-> <<cx, cy>>, R |-> <<rx, ry>>,
                  s |-> s, sPrime |-> sPrime]

\* validateProofComponents testing only the commitment point
validateProofComponents_SkipsR(commPoint, R, s, sPrime) ==
    mulmod(commPoint[2], commPoint[2], P)
        = addmod(mulmod(mulmod(commPoint[1], commPoint[1], P),
                        commPoint[1], P), B, P)

\* ZKProofVerifier.validateProofComponents: TRUE unless it reverts
validateProofComponents(commPoint, R, s, sPrime) ==
    /\ mulmod(commPoint[2], commPoint[2], P)
         = addmod(mulmod(mulmod(commPoint[1], commPoint[1], P),
                         commPoint[1], P), B, P)
    /\ mulmod(R[2], R[2], P)
         = addmod(mulmod(mulmod(R[1], R[1], P), R[1], P), B, P)

\* computeVerificationEquation with the right side R + C (challenge unused)
computeVerificationEquation_IgnoresChallenge(s, sPrime, R, commPoint, e) ==
    [left |-> ecAdd(ecMul(G1, s), ecMul(H, sPrime)),
     right |-> ecAdd(R, commPoint)]

\* ZKProofVerifier.computeVerificationEquation
computeVerificationEquation(s, sPrime, R, commPoint, e) ==
    [left |-> ecAdd(ecMul(G1, s), ecMul(H, sPrime)),
     right |-> ecAdd(R, ecMul(commPoint, e))]

\* ZKProofVerifier.verifyVoteProof.  res is "true", "false" or "revert";
\* hashed / arith record whether computeChallenge / the group arithmetic of
\* computeVerificationEquation were entered before the call ended, and e is
\* the challenge it computed (-1 when it computed none).
verifyVoteProof(proof, voteId) ==
    IF ~(Len(proof) = SCHNORR_PROOF_LENGTH /\ voteId # 0)
    THEN [res |-> "revert", hashed |-> FALSE, arith |-> FALSE, e |-> -1]
    ELSE LET c == extractProofComponents(proof)
         IN IF ~c.ok
            THEN [res |-> "revert", hashed |-> FALSE, arith |-> FALSE, e |-> -1]
            ELSE IF ~validateProofComponents(c.commPoint, c.R, c.s, c.sPrime)
            THEN [res |-> "revert", hashed |-> FALSE, arith |-> FALSE, e |-> -1]
            ELSE LET e == computeChallenge(c.R, c.commPoint, voteId)
                     eq == computeVerificationEquation(c.s, c.sPrime, c.R,
                                                       c.commPoint, e)
                 IN IF eq.left = Failed \/ eq.right = Failed
                    THEN [res |-> "revert", hashed |-> TRUE, arith |-> TRUE,
                          e |-> e]
                    ELSE [res |-> IF eq.left[1] = eq.right[1]
                                     /\ eq.left[2] = eq.right[2]
                                  THEN "true" ELSE "false",
                          hashed |-> TRUE, arith |-> TRUE, e |-> e]

\* ----------------------------------------------------------------------
\* Off-chain: @noble/curves points, ECUtils, VoteProof
\* ----------------------------------------------------------------------
\* bn254.ProjectivePoint.fromAffine: throws unless both coordinates are
\* field elements; (0, 0) is the zero point
fromAffine(x, y) ==
    IF x < 0 \/ x >= P \/ y < 0 \/ y >= P THEN Failed ELSE <<x, y>>

\* ProjectivePoint.multiply: throws unless 0 < scalar < N
multiply(point, scalar) ==
    IF scalar < 1 \/ scalar >= N \/ point \notin GroupElems THEN Failed
    ELSE GroupMul[point, scalar]

\* ProjectivePoint.add
add(p1, p2) ==
    IF p1 \notin GroupElems \/ p2 \notin GroupElems THEN Failed
    ELSE GroupAdd[p1, p2]

\* ECUtils.computeChallenge; -1 stands for the thrown error
ECUtils_computeChallenge(R, commitment, voteId) ==
    IF ~ECUtils_isOnCurve(R) \/ ~ECUtils_isOnCurve(commitment) THEN -1
    ELSE LET data == encodeBigIntToBytes(R[1]) \o encodeBigIntToBytes(R[2])
                     \o encodeBigIntToBytes(commitment[1])
                     \o encodeBigIntToBytes(commitment[2])
                     \o encodeBigIntToBytes(voteId)
             hashBytes == keccak256(data)
             e == bytesToNumberBE(hashBytes) % N
         IN IF e = 0 THEN 1 ELSE e

\* encodePoint / encodeScalar inside generateSchnorrProof
encodePoint(point) ==
    hexToBytes(toString16(point[1]), WordBytes)
    \o hexToBytes(toString16(point[2]), WordBytes)

encodeScalar(value) == hexToBytes(toString16(value), WordBytes)

\* decodePoint / decodeScalar inside verifyProof (w is the 0-based word)
decodeScalar(data, w) ==
    parseHex(bytesToHex(SubSeq(data, w * WordBytes + 1, (w + 1) * WordBytes)))

decodePoint(data, w) == fromAffine(decodeScalar(data, w), decodeScalar(data, w + 1))

\* a generateSchnorrProof that brings an option id >= N back into range (as
\* generatePedersenCommitment does with its value) instead of refusing it
generateSchnorrProof_AdjustsOption(blindingBigInt, optionId, voteId, kBigInt, kPrimeBigInt) ==
    LET adjusted == IF optionId >= N THEN (optionId % (N - 1)) + 1 ELSE optionId
    IN IF adjusted <= 0 THEN [ok |-> FALSE]
       ELSE IF blindingBigInt <= 0 \/ blindingBigInt >= N THEN [ok |-> FALSE]
       ELSE LET commitment == add(multiply(G1, adjusted), multiply(H, blindingBigInt))
                R == add(multiply(G1, kBigInt), multiply(H, kPrimeBigInt))
                e == ECUtils_computeChallenge(R, commitment, voteId)
                e_norm == e % N
                s == (kBigInt + ((e_norm * adjusted) % N)) % N
                sPrime == (kPrimeBigInt + ((e_norm * blindingBigInt) % N)) % N
            IN IF commitment = Failed \/ R = Failed \/ e = -1 THEN [ok |-> FALSE]
               ELSE [ok |-> TRUE,
                     tuple |-> [C |-> commitment, R |-> R, s |-> s,
                                sPrime |-> sPrime],
                     proof |-> encodePoint(commitment) \o encodePoint(R)
                               \o encodeScalar(s) \o encodeScalar(sPrime)]

\* VoteProof.generateSchnorrProof, with the three generateBlinding draws
\* (blinding, k, k') given as their scalar values
generateSchnorrProof(blindingBigInt, optionId, voteId, kBigInt, kPrimeBigInt) ==
    IF optionId <= 0 \/ optionId >= N THEN [ok |-> FALSE]
    ELSE IF blindingBigInt <= 0 \/ blindingBigInt >= N THEN [ok |-> FALSE]
    ELSE LET commitment == add(multiply(G1, optionId), multiply(H, blindingBigInt))
             R == add(multiply(G1, kBigInt), multiply(H, kPrimeBigInt))
             e == ECUtils_computeChallenge(R, commitment, voteId)
             e_norm == e % N
             ev == (e_norm * optionId) % N
             er == (e_norm * blindingBigInt) % N
             s == (kBigInt + ev) % N
             sPrime == (kPrimeBigInt + er) % N
         IN IF commitment = Failed \/ R = Failed \/ e = -1 THEN [ok |-> FALSE]
            ELSE [ok |-> TRUE,
                  tuple |-> [C |-> commitment, R |-> R, s |-> s,
                             sPrime |-> sPrime],
                  proof |-> encodePoint(commitment) \o encodePoint(R)
                            \o encodeScalar(s) \o encodeScalar(sPrime)]

\* VoteProof.generateVoteProof
generateVoteProof(voteId, optionId, blinding, k, kPrime) ==
    IF optionId <= 0 THEN [ok |-> FALSE]
    ELSE generateSchnorrProof(blinding, optionId, voteId, k, kPrime)

\* VoteProof.verifyProof.  Every exception is caught and turned into false,
\* so res is "true" or "false"; threw records that the catch block ran, and
\* e is the normalised challenge it computed (-1 when it computed none).
verifyProof(proof, optionId, voteId) ==
    IF Len(proof) # SCHNORR_PROOF_LENGTH \/ optionId <= 0
    THEN [res |-> "false", threw |-> TRUE, hashed |-> FALSE, arith |-> FALSE,
                  e |-> -1]
    ELSE LET commitmentPoint == decodePoint(proof, 0)
             R == decodePoint(proof, 2)
             s == decodeScalar(proof, 4)
             sPrime == decodeScalar(proof, 5)
         IN IF commitmentPoint = Failed \/ R = Failed
            THEN [res |-> "false", threw |-> TRUE, hashed |-> FALSE, arith |-> FALSE,
                  e |-> -1]
            ELSE IF ~ECUtils_isOnCurve(commitmentPoint)
            THEN [res |-> "false", threw |-> FALSE, hashed |-> FALSE, arith |-> FALSE,
                  e |-> -1]
            ELSE IF ~ECUtils_isOnCurve(R)
            THEN [res |-> "false", threw |-> FALSE, hashed |-> FALSE, arith |-> FALSE,
                  e |-> -1]
            ELSE IF s >= N \/ sPrime >= N
            THEN [res |-> "false", threw |-> FALSE, hashed |-> FALSE, arith |-> FALSE,
                  e |-> -1]
            ELSE LET e == ECUtils_computeChallenge(R, commitmentPoint, voteId)
                     e_norm == e % N
                     sG == multiply(G1, s)
                     sPrimeH == multiply(H, sPrime)
                     left == add(sG, sPrimeH)
                     eC == multiply(commitmentPoint, e_norm)
                     right == add(R, eC)
                 IN IF e = -1
                    THEN [res |-> "false", threw |-> TRUE, hashed |-> FALSE,
                          arith |-> FALSE, e |-> -1]
                    ELSE IF sG = Failed \/ sPrimeH = Failed \/ eC = Failed
                    THEN [res |-> "false", threw |-> TRUE, hashed |-> TRUE,
                          arith |-> TRUE, e |-> e_norm]
                    ELSE [res |-> IF left = right THEN "true" ELSE "false",
                          threw |-> FALSE, hashed |-> TRUE, arith |-> TRUE,
                          e |-> e_norm]


\* ----------------------------------------------------------------------
\* Off-chain: VoteCrypto (blinding factors, Pedersen commitments and its
\* two static caches).  A Uint8Array is an object: the heap gives each array
\* its current contents, blindingCache (a WeakMap) is keyed by the array
\* itself, pointCache (a Map) by the string made of value and contents.
\* ----------------------------------------------------------------------
GENERATION_ATTEMPTS == 50

\* ECUtils.bytesToBigInt
ECUtils_bytesToBigInt(bytes) ==
    LET num == bytesToNumberBE(bytes)
        maxMultiple == (WordMod - 1) \div N
        threshold == maxMultiple * N
        reduced == IF num >= threshold
                   THEN (IF num % N = 0 THEN 1 ELSE num % N)
                   ELSE num % N
    IN IF num = 0 THEN 1
       ELSE IF reduced = 0 \/ reduced >= N THEN 1
       ELSE reduced

\* the normalisation loop of generateBlinding: WordBytes chunks written most
\* significant first (four setBigUint64 of 8 bytes each in the code)
normalizedBytes(value) ==
    [j \in 1..WordBytes |-> (value \div (ByteBase ^ (WordBytes - j))) % ByteBase]

RECURSIVE generateBlindingLoop_OneMore(_, _, _)
\* (a loop that runs one attempt more and does not give up in the handler)
generateBlindingLoop_OneMore(i, rngFails, array) ==
    IF i > GENERATION_ATTEMPTS THEN [res |-> "throw", attempts |-> i]
    ELSE IF i < rngFails
    THEN generateBlindingLoop_OneMore(i + 1, rngFails, array)
    ELSE LET value == ECUtils_bytesToBigInt(array)
         IN IF value <= 0 \/ value >= N
            THEN generateBlindingLoop_OneMore(i + 1, rngFails, array)
            ELSE [res |-> "ok", attempts |-> i + 1, value |-> value,
                  result |-> normalizedBytes(value)]

RECURSIVE generateBlindingLoop(_, _, _)
\* the for loop of VoteCrypto.generateBlinding from attempt i on.  rngFails is
\* the number of leading attempts in which crypto.getRandomValues throws and
\* array is what it returns afterwards; attempts counts the loop bodies run.
generateBlindingLoop(i, rngFails, array) ==
    IF i >= GENERATION_ATTEMPTS THEN [res |-> "throw", attempts |-> i]
    ELSE IF i < rngFails
    THEN IF i = GENERATION_ATTEMPTS - 1
         THEN [res |-> "throw", attempts |-> i + 1]
         ELSE generateBlindingLoop(i + 1, rngFails, array)
    ELSE LET value == ECUtils_bytesToBigInt(array)
         IN IF value <= 0 \/ value >= N
            THEN generateBlindingLoop(i + 1, rngFails, array)
            ELSE [res |-> "ok", attempts |-> i + 1, value |-> value,
                  result |-> normalizedBytes(value)]

\* VoteCrypto.generateBlinding
generateBlinding(rngFails, array) == generateBlindingLoop(0, rngFails, array)

\* VoteCrypto.bytesToNumber on array a of the heap hp: the number returned
\* and the blindingCache after the call
bytesToNumber(bc, hp, a) ==
    IF a \in DOMAIN bc THEN [value |-> bc[a], blindingCache |-> bc]
    ELSE LET value == ECUtils_bytesToBigInt(hp[a])
         IN [value |-> value, blindingCache |-> bc @@ (a :> value)]

\* ECUtils.pointToFullBytes
pointToFullBytes(point) ==
    encodeBigIntToBytes(point[1]) \o encodeBigIntToBytes(point[2])

\* VoteCrypto.generatePedersenCommitment(value, blinding) with blinding the
\* array a: res is "ok" (out is the returned bytes) or "throw", and the two
\* caches are given as the call leaves them
generatePedersenCommitment(pc, bc, hp, value, a) ==
    LET cacheKey == <<value, hp[a]>>
        adjustedV == IF value >= N THEN (value % (N - 1)) + 1 ELSE value
        conv == bytesToNumber(bc, hp, a)
        r == conv.value
        vG == multiply(G1, adjustedV)
        rH == multiply(H, r)
        commitment == add(vG, rH)
    IN IF value <= 0
       THEN [res |-> "throw", pointCache |-> pc, blindingCache |-> bc]
       ELSE IF cacheKey \in DOMAIN pc
       THEN [res |-> "ok", out |-> pointToFullBytes(pc[cacheKey]),
             pointCache |-> pc, blindingCache |-> bc]
       ELSE IF adjustedV <= 0 \/ adjustedV >= N
       THEN [res |-> "throw", pointCache |-> pc, blindingCache |-> bc]
       ELSE IF r <= 0 \/ r >= N
       THEN [res |-> "throw", pointCache |-> pc,
             blindingCache |-> conv.blindingCache]
       ELSE IF vG = Failed \/ ~ECUtils_isOnCurve(vG)
               \/ rH = Failed \/ ~ECUtils_isOnCurve(rH)
               \/ commitment = Failed \/ ~ECUtils_isOnCurve(commitment)
       THEN [res |-> "throw", pointCache |-> pc,
             blindingCache |-> conv.blindingCache]
       ELSE [res |-> "ok", out |-> pointToFullBytes(commitment),
             pointCache |-> pc @@ (cacheKey :> commitment),
             blindingCache |-> conv.blindingCache]

\* the byte comparison of verifyPedersenCommitment: OR of the XORs is 0
sameBytes(c1, c2) == \A i \in 1..Len(c1) : c1[i] = c2[i]

\* (a comparison that trusts the given commitment's length)
verifyPedersenCommitment_NoLengthCheck(pc, bc, hp, commitment, value, a) ==
    LET g == generatePedersenCommitment(pc, bc, hp, value, a)
    IN [res |-> IF g.res = "throw" THEN FALSE
                ELSE sameBytes(commitment, g.out),
        pointCache |-> g.pointCache, blindingCache |-> g.blindingCache]

\* VoteCrypto.verifyPedersenCommitment(commitment, value, blinding)
verifyPedersenCommitment(pc, bc, hp, commitment, value, a) ==
    LET g == generatePedersenCommitment(pc, bc, hp, value, a)
    IN [res |-> IF g.res = "throw" THEN FALSE
                ELSE IF Len(commitment) # Len(g.out) THEN FALSE
                ELSE sameBytes(commitment, g.out),
        pointCache |-> g.pointCache, blindingCache |-> g.blindingCache]


\* ----------------------------------------------------------------------
\* State machine: a prover builds a proof, the byte string may be altered
\* in flight, and each verifier is run on the bytes it receives.
\* ----------------------------------------------------------------------
VARIABLES
    phase,      \* "idle", "failed" (prover threw) or "proved"
    proof,      \* the proof bytes in flight
    voteId,     \* the contextId the proof was made for and is verified with
    optionId,   \* the plaintext option identifier
    honest,     \* TRUE while proof is exactly what the prover returned
    sent,       \* the tuple (C, R, s, s') the prover encoded, or NoTuple
    onOut,      \* outcome of ZKProofVerifier.verifyVoteProof, or NoOut
    offOut,     \* outcome of VoteProof.verifyProof, or NoOut
    verifierH,  \* ZKProofVerifier's storage: the auxiliary point H
    thisVoteProof,      \* the fields of the VoteProof object
    votes,              \* Voting.votes
    totalVoteProjects,  \* Voting.totalVoteProjects
    signedUpVoters,     \* Voting.signedUpVoters
    timestamp,          \* block.timestamp
    proofVerifier,      \* Voting.proofVerifier (immutable)
    accepted,           \* history: the submissions submitVote has recorded
    heap,               \* the Uint8Array objects: heap[a] is array a's contents
    blindingCache,      \* VoteCrypto.blindingCache: array -> bigint
    pointCache,         \* VoteCrypto.pointCache: <<value, contents>> -> point
    lastCall,           \* the latest VoteCrypto call and how it ended
    curve,              \* the latest curve operation: arguments and result
    instance,           \* VotingContract.instance: "null", "created", or
                        \* "returned" once a caller has received it
    contract,           \* the instance's contract field is set
    setups,             \* how often setupEventListeners and loadVotes ran
    submittingVotes,    \* the instance's submittingVotes set
    calls               \* the asynchronous calls in flight, by caller

proofVars == <<phase, proof, voteId, optionId, honest, sent, onOut, offOut>>
ledgerVars ==
    <<votes, totalVoteProjects, signedUpVoters, timestamp, proofVerifier,
      accepted>>
objectVars == <<verifierH, thisVoteProof>>
cryptoVars == <<heap, blindingCache, pointCache, lastCall>>
curveVars == <<curve>>
clientVars == <<instance, contract, setups, submittingVotes, calls>>
vars == <<proofVars, objectVars, ledgerVars, cryptoVars, curveVars, clientVars>>

NoOut == [res |-> "none"]
NoTuple == [s |-> -1]

\* bounds of the ledger
MaxVotes == 1
MaxOptionCount == 1

LedgerVoteIds == 0..MaxVotes
OptionSlots == 1..MaxOptionCount

\* a slot of the votes mapping that createVote has not written: all zero
NoVote ==
    [id |-> 0, startTime |-> 0, endTime |-> 0, voterCount |-> 0,
     totalVotes |-> 0, optionCount |-> 0,
     votesReceived |-> [o \in OptionSlots |-> 0], hasVoted |-> {}]

\* the byte strings offered to the ledger as proofs, by number: one built by
\* the prover for each vote id (and for one id beyond), and, as number 0, the
\* first of them without its last byte
ProofPool == 0..(MaxVotes + 1)
PoolProof(i) ==
    IF i = 0
    THEN SubSeq(generateVoteProof(1, 1, 2, 1, 1).proof, 1, SCHNORR_PROOF_LENGTH - 1)
    ELSE generateVoteProof(i, 1, 2, 1, 1).proof

\* the storage of Voting after its constructor; proofVerifier is the deployed
\* ZKProofVerifier, held as its answer to every call the ledger can make
InitLedger ==
    /\ proofVerifier = [_proof \in ProofPool, _voteId \in LedgerVoteIds |->
                            verifyVoteProof(PoolProof(_proof), _voteId).res] @@ <<>>
    /\ votes = [v \in LedgerVoteIds |-> NoVote]
    /\ totalVoteProjects = 0
    /\ signedUpVoters = {}
    /\ timestamp = 0
    /\ accepted = {}

\* ZKProofVerifier after its constructor, and a constructed VoteProof
InitObjects ==
    /\ verifierH = H
    /\ thisVoteProof = [G |-> G1, SCHNORR_PROOF_LENGTH |-> SCHNORR_PROOF_LENGTH]

\* VoteCrypto's statics when the module is loaded, and no array yet
InitCrypto ==
    /\ heap = <<>>
    /\ blindingCache = <<>>
    /\ pointCache = <<>>
    /\ lastCall = [op |-> "none"]

\* the browser's callers of VotingContract
MaxCallers == 2
Callers == 1..MaxCallers
Idle == [pc |-> "idle"]

\* VotingContract before the first getInstance
InitClient ==
    /\ instance = "null"
    /\ contract = FALSE
    /\ setups = 0
    /\ submittingVotes = {}
    /\ calls = [c \in Callers |-> Idle]

Init ==
    /\ InitLedger
    /\ InitObjects
    /\ InitCrypto
    /\ curve = [op |-> "none"]
    /\ InitClient
    /\ phase = "idle"
    /\ proof = <<>>
    /\ voteId = 0
    /\ optionId = 0
    /\ honest = TRUE
    /\ sent = NoTuple
    /\ onOut = NoOut
    /\ offOut = NoOut

\* VoteProof.generateVoteProof(voteId, optionId); r, k, k' are the values of
\* the three generateBlinding draws
GenerateVoteProof ==
    /\ phase = "idle"
    /\ \E vid \in VoteIds, oid \in OptionIds, r \in Scalars, k \in Nonces,
          kPrime \in Nonces :
          LET g == generateVoteProof(vid, oid, r, k, kPrime)
          IN /\ phase' = IF g.ok THEN "proved" ELSE "failed"
             /\ proof' = IF g.ok THEN g.proof ELSE <<>>
             /\ sent' = IF g.ok THEN g.tuple ELSE NoTuple
             /\ voteId' = vid
             /\ optionId' = oid
    /\ UNCHANGED <<honest, onOut, offOut, objectVars, ledgerVars, cryptoVars, curveVars, clientVars>>

Unverified == phase = "proved" /\ onOut = NoOut /\ offOut = NoOut

flipBit(byte, bit) ==
    LET w == 2 ^ bit
    IN IF (byte \div w) % 2 = 1 THEN byte - w ELSE byte + w

\* the proof bytes are altered in flight: one bit of one byte is flipped
FlipBit ==
    /\ Unverified /\ honest
    /\ \E pos \in 1..Len(proof), bit \in 0..7 :
          proof' = [proof EXCEPT ![pos] = flipBit(proof[pos], bit)]
    /\ honest' = FALSE
    /\ UNCHANGED <<phase, voteId, optionId, sent, onOut, offOut>>
    /\ UNCHANGED <<objectVars, ledgerVars, cryptoVars, curveVars, clientVars>>

\* the encoding of point C (w = 0) or R (w = 2) is replaced by all zero
\* bytes, the encoding of the point at infinity
ZeroPoint ==
    /\ Unverified /\ honest
    /\ \E w \in {0, 2} :
          proof' = [i \in 1..Len(proof) |->
                       IF i > w * WordBytes /\ i <= (w + 2) * WordBytes
                       THEN 0 ELSE proof[i]]
    /\ honest' = FALSE
    /\ UNCHANGED <<phase, voteId, optionId, sent, onOut, offOut>>
    /\ UNCHANGED <<objectVars, ledgerVars, cryptoVars, curveVars, clientVars>>

\* the last byte is lost in flight
Truncate ==
    /\ Unverified /\ honest
    /\ proof' = SubSeq(proof, 1, Len(proof) - 1)
    /\ honest' = FALSE
    /\ UNCHANGED <<phase, voteId, optionId, sent, onOut, offOut>>
    /\ UNCHANGED <<objectVars, ledgerVars, cryptoVars, curveVars, clientVars>>

\* a byte is appended in flight
Extend ==
    /\ Unverified /\ honest
    /\ proof' = Append(proof, 0)
    /\ honest' = FALSE
    /\ UNCHANGED <<phase, voteId, optionId, sent, onOut, offOut>>
    /\ UNCHANGED <<objectVars, ledgerVars, cryptoVars, curveVars, clientVars>>

\* a verifyVoteProof that writes the point it decoded into the storage slot H
VerifyVoteProof_StoresDecodedPoint ==
    /\ phase = "proved"
    /\ onOut = NoOut
    /\ onOut' = verifyVoteProof(proof, voteId)
    /\ verifierH' = IF Len(proof) = SCHNORR_PROOF_LENGTH
                    THEN <<calldataload(proof, 0), calldataload(proof, 1)>>
                    ELSE verifierH
    /\ UNCHANGED <<phase, proof, voteId, optionId, honest, sent, offOut>>
    /\ UNCHANGED <<thisVoteProof, ledgerVars, cryptoVars, curveVars, clientVars>>

\* ZKProofVerifier.verifyVoteProof(proof, voteId), called directly: it reads
\* H and writes no storage (its events are logs)
VerifyVoteProof ==
    /\ phase = "proved"
    /\ onOut = NoOut
    /\ onOut' = verifyVoteProof(proof, voteId)
    /\ UNCHANGED <<phase, proof, voteId, optionId, honest, sent, offOut>>
    /\ UNCHANGED <<verifierH, thisVoteProof, ledgerVars, cryptoVars, curveVars, clientVars>>

\* VoteProof.verifyProof(proof, optionId, voteId)
VerifyProof ==
    /\ phase = "proved"
    /\ offOut = NoOut
    /\ offOut' = verifyProof(proof, optionId, voteId)
    /\ UNCHANGED <<phase, proof, voteId, optionId, honest, sent, onOut>>
    /\ UNCHANGED <<verifierH, thisVoteProof, ledgerVars, cryptoVars, curveVars, clientVars>>

Next ==
    \/ GenerateVoteProof
    \/ FlipBit
    \/ ZeroPoint
    \/ Truncate
    \/ Extend
    \/ VerifyVoteProof
    \/ VerifyProof

Spec == Init /\ [][Next]_vars

TypeOK ==
    /\ phase \in {"idle", "failed", "proved"}
    /\ onOut.res \in {"none", "true", "false", "revert"}
    /\ offOut.res \in {"none", "true", "false"}


\* ----------------------------------------------------------------------
\* The ledger: Voting (createVote, signUpForVote, submitVote) with the
\* verifier behind it.  "2 days" is scaled to TwoDays time units.
\* ----------------------------------------------------------------------
TwoDays == 2
\* the time horizon: the latest start a vote can have and still see a block
\* before its registration window, its window, its voting period and its end
MaxTime == TwoDays + 2

Times == 0..MaxTime
Senders == {"voterA", "voterB"}

\* Voting.getCurrentPhase; "revert" for the failed require and for the
\* checked subtraction startTime - 2 days underflowing
getCurrentPhase(vs, _voteId, currentTime) ==
    LET voteData == vs[_voteId]
    IN IF voteData.id <= 0 THEN "revert"
       ELSE IF voteData.startTime < TwoDays THEN "revert"
       ELSE IF currentTime > voteData.endTime THEN "Ended"
       ELSE IF currentTime >= voteData.startTime THEN "Voting"
       ELSE IF currentTime >= voteData.startTime - TwoDays THEN "Registration"
       ELSE "Ended"

\* Voting.verifyProofUsingPrecompiles: the external call to the verifier;
\* a revert of the callee reverts the caller
verifyProofUsingPrecompiles(_proof, _voteId) == proofVerifier[_proof, _voteId]

\* a submitVote without require(isProofValid)
submitVote_IgnoresVerdict(vs, sender, _voteId, _optionId, _proof, currentTime) ==
    LET voteData == vs[_voteId]
        phase_ == getCurrentPhase(vs, _voteId, currentTime)
        isProofValid == verifyProofUsingPrecompiles(_proof, _voteId)
    IN IF phase_ # "Voting" THEN [res |-> "revert:phase", votes |-> vs]
       ELSE IF ~(_optionId > 0 /\ _optionId <= voteData.optionCount)
       THEN [res |-> "revert:option", votes |-> vs]
       ELSE IF sender \in voteData.hasVoted
       THEN [res |-> "revert:voted", votes |-> vs]
       ELSE IF isProofValid = "revert"
       THEN [res |-> "revert:verifier", votes |-> vs]
       ELSE [res |-> "ok",
             votes |-> [vs EXCEPT
                 ![_voteId].votesReceived[_optionId] = @ + 1,
                 ![_voteId].totalVotes = @ + 1,
                 ![_voteId].hasVoted = @ \cup {sender}]]

\* (a submitVote that does not count the vote in totalVotes)
submitVote_NoTotal(vs, sender, _voteId, _optionId, _proof, currentTime) ==
    LET voteData == vs[_voteId]
        phase_ == getCurrentPhase(vs, _voteId, currentTime)
        isProofValid == verifyProofUsingPrecompiles(_proof, _voteId)
    IN IF phase_ # "Voting" THEN [res |-> "revert:phase", votes |-> vs]
       ELSE IF ~(_optionId > 0 /\ _optionId <= voteData.optionCount)
       THEN [res |-> "revert:option", votes |-> vs]
       ELSE IF sender \in voteData.hasVoted
       THEN [res |-> "revert:voted", votes |-> vs]
       ELSE IF isProofValid = "revert"
       THEN [res |-> "revert:verifier", votes |-> vs]
       ELSE IF isProofValid # "true"
       THEN [res |-> "revert:proof", votes |-> vs]
       ELSE [res |-> "ok",
             votes |-> [vs EXCEPT
                 ![_voteId].votesReceived[_optionId] = @ + 1,
                 ![_voteId].hasVoted = @ \cup {sender}]]

\* (a submitVote without require(!hasAlreadyVoted))
submitVote_NoVotedCheck(vs, sender, _voteId, _optionId, _proof, currentTime) ==
    LET voteData == vs[_voteId]
        phase_ == getCurrentPhase(vs, _voteId, currentTime)
        isProofValid == verifyProofUsingPrecompiles(_proof, _voteId)
    IN IF phase_ # "Voting" THEN [res |-> "revert:phase", votes |-> vs]
       ELSE IF ~(_optionId > 0 /\ _optionId <= voteData.optionCount)
       THEN [res |-> "revert:option", votes |-> vs]
       ELSE IF isProofValid = "revert"
       THEN [res |-> "revert:verifier", votes |-> vs]
       ELSE IF isProofValid # "true"
       THEN [res |-> "revert:proof", votes |-> vs]
       ELSE [res |-> "ok",
             votes |-> [vs EXCEPT
                 ![_voteId].votesReceived[_optionId] = @ + 1,
                 ![_voteId].totalVotes = @ + 1,
                 ![_voteId].hasVoted = @ \cup {sender}]]

\* Voting.submitVote: res names the require that failed (the whole
\* transaction is then rolled back) or is "ok"; votes is the storage after
submitVote(vs, sender, _voteId, _optionId, _proof, currentTime) ==
    LET voteData == vs[_voteId]
        phase_ == getCurrentPhase(vs, _voteId, currentTime)
        isProofValid == verifyProofUsingPrecompiles(_proof, _voteId)
    IN IF phase_ # "Voting" THEN [res |-> "revert:phase", votes |-> vs]
       ELSE IF ~(_optionId > 0 /\ _optionId <= voteData.optionCount)
       THEN [res |-> "revert:option", votes |-> vs]
       ELSE IF sender \in voteData.hasVoted
       THEN [res |-> "revert:voted", votes |-> vs]
       ELSE IF isProofValid = "revert"
       THEN [res |-> "revert:verifier", votes |-> vs]
       ELSE IF isProofValid # "true"
       THEN [res |-> "revert:proof", votes |-> vs]
       ELSE [res |-> "ok",
             votes |-> [vs EXCEPT
                 ![_voteId].votesReceived[_optionId] = @ + 1,
                 ![_voteId].totalVotes = @ + 1,
                 ![_voteId].hasVoted = @ \cup {sender}]]

\* Voting.createVote(_title, _description, _startTime, _endTime, _options)
CreateVote ==
    /\ totalVoteProjects < MaxVotes
    /\ \E _startTime \in Times, _endTime \in Times, n \in 0..MaxOptionCount :
          /\ _endTime > _startTime
          /\ n > 0
          /\ totalVoteProjects' = totalVoteProjects + 1
          /\ votes' = [votes EXCEPT ![totalVoteProjects + 1] =
                 [id |-> totalVoteProjects + 1, startTime |-> _startTime,
                  endTime |-> _endTime, voterCount |-> 0, totalVotes |-> 0,
                  optionCount |-> n,
                  votesReceived |-> [o \in OptionSlots |-> 0],
                  hasVoted |-> {}]]
    /\ UNCHANGED <<signedUpVoters, timestamp, accepted, proofVerifier>>
    /\ UNCHANGED <<proofVars, objectVars, cryptoVars, curveVars, clientVars>>

\* Voting.signUpForVote(_voteId), sent by sender
SignUpForVote ==
    /\ \E sender \in Senders, _voteId \in LedgerVoteIds :
          LET voteData == votes[_voteId]
          IN /\ voteData.id > 0
             /\ voteData.startTime >= TwoDays
             /\ timestamp >= voteData.startTime - TwoDays
             /\ timestamp <= voteData.endTime
             /\ <<_voteId, sender>> \notin signedUpVoters
             /\ signedUpVoters' = signedUpVoters \cup {<<_voteId, sender>>}
             /\ votes' = [votes EXCEPT ![_voteId].voterCount = @ + 1]
    /\ UNCHANGED <<totalVoteProjects, timestamp, accepted, proofVerifier>>
    /\ UNCHANGED <<proofVars, objectVars, cryptoVars, curveVars, clientVars>>

\* Voting.submitVote(_voteId, _optionId, _proof), sent by sender.  A call
\* that fails a require before the verifier is asked changes nothing at all.
SubmitVote ==
    /\ \E _voteId \in LedgerVoteIds :
       /\ getCurrentPhase(votes, _voteId, timestamp) = "Voting"
       /\ \E sender \in Senders,
             _optionId \in 0..(MaxOptionCount + 1), _proof \in ProofPool :
          LET r == submitVote(votes, sender, _voteId, _optionId, _proof, timestamp)
          IN /\ r.res \in {"ok", "revert:proof", "revert:verifier"}
             /\ votes' = r.votes
             /\ accepted' = IF r.res = "ok"
                            THEN accepted \cup
                                 {[voteId |-> _voteId, sender |-> sender,
                                   optionId |-> _optionId, proof |-> _proof]}
                            ELSE accepted
    /\ UNCHANGED <<totalVoteProjects, signedUpVoters, timestamp, proofVerifier>>
    /\ UNCHANGED <<proofVars, objectVars, cryptoVars, curveVars, clientVars>>

\* a later block
Tick ==
    /\ timestamp <= MaxTime
    /\ timestamp' = timestamp + 1
    /\ UNCHANGED <<votes, totalVoteProjects, signedUpVoters, accepted, proofVerifier>>
    /\ UNCHANGED <<proofVars, objectVars, cryptoVars, curveVars, clientVars>>

NextLedger ==
    \/ CreateVote
    \/ SignUpForVote
    \/ SubmitVote
    \/ Tick

SpecLedger == Init /\ [][NextLedger]_vars


\* ----------------------------------------------------------------------
\* VoteCrypto in use: callers make byte arrays, overwrite them, draw
\* blinding factors, and build and open commitments.
\* ----------------------------------------------------------------------
MaxArrays == 1

\* contents a caller gives a blinding array: the encodings of 0, 2 and N
BlindingSamples == {encodeBigIntToBytes(x) : x \in {0, 2, N}}

\* what crypto.getRandomValues may put in the (one chunk longer) buffer:
\* the number 0, the number 2, and the least multiple of N that needs the
\* extra chunk
RngSamples ==
    {[i \in 1..(WordBytes + 1) |-> IF i = WordBytes + 1 THEN b ELSE 0] :
        b \in {0, 2}}
    \cup {[i \in 1..(WordBytes + 1) |->
             IF i = 1 THEN 1
             ELSE IF i = WordBytes + 1 THEN (N - (WordMod % N)) % N
             ELSE 0]}

\* leading failures of crypto.getRandomValues: none, all but the last
\* attempt, every attempt
RngFailures == {0, GENERATION_ATTEMPTS - 1, GENERATION_ATTEMPTS}

\* the values committed to: one rejected, one in range
CommitValues == {0, 1}

Arrays == 1..Len(heap)

\* new Uint8Array(contents) by a caller
NewArray ==
    /\ Len(heap) < MaxArrays
    /\ \E contents \in BlindingSamples : heap' = Append(heap, contents)
    /\ UNCHANGED <<blindingCache, pointCache, lastCall>>
    /\ UNCHANGED <<proofVars, objectVars, ledgerVars, curveVars, clientVars>>

\* a caller overwrites the contents of an array it holds
MutateArray ==
    /\ \E a \in Arrays, contents \in BlindingSamples :
          /\ heap[a] # contents
          /\ heap' = [heap EXCEPT ![a] = contents]
    /\ UNCHANGED <<blindingCache, pointCache, lastCall>>
    /\ UNCHANGED <<proofVars, objectVars, ledgerVars, curveVars, clientVars>>

\* VoteCrypto.generateBlinding(): the result is a new array, cached
GenerateBlinding ==
    /\ Len(heap) < MaxArrays
    /\ \E rngFails \in RngFailures, array \in RngSamples :
          LET g == generateBlinding(rngFails, array)
          IN /\ lastCall' = IF g.res = "ok"
                            THEN [op |-> "generateBlinding", res |-> "ok",
                                  attempts |-> g.attempts, result |-> g.result]
                            ELSE [op |-> "generateBlinding", res |-> "throw",
                                  attempts |-> g.attempts]
             /\ heap' = IF g.res = "ok" THEN Append(heap, g.result) ELSE heap
             /\ blindingCache' = IF g.res = "ok"
                                 THEN blindingCache @@ ((Len(heap) + 1) :> g.value)
                                 ELSE blindingCache
    /\ UNCHANGED pointCache
    /\ UNCHANGED <<proofVars, objectVars, ledgerVars, curveVars, clientVars>>

\* VoteCrypto.bytesToNumber(bytes)
BytesToNumber ==
    /\ \E a \in Arrays :
          LET n == bytesToNumber(blindingCache, heap, a)
          IN /\ blindingCache' = n.blindingCache
             /\ lastCall' = [op |-> "bytesToNumber"]
    /\ UNCHANGED <<heap, pointCache>>
    /\ UNCHANGED <<proofVars, objectVars, ledgerVars, curveVars, clientVars>>

\* VoteCrypto.generatePedersenCommitment(value, blinding)
GeneratePedersenCommitment ==
    /\ \E value \in CommitValues, a \in Arrays :
          LET g == generatePedersenCommitment(pointCache, blindingCache, heap,
                                              value, a)
          IN /\ pointCache' = g.pointCache
             /\ blindingCache' = g.blindingCache
             /\ lastCall' = [op |-> "generatePedersenCommitment",
                              res |-> g.res]
    /\ UNCHANGED heap
    /\ UNCHANGED <<proofVars, objectVars, ledgerVars, curveVars, clientVars>>

\* the commitments generatePedersenCommitment has returned so far (it caches
\* each point it returns)
Returned == {pointToFullBytes(pointCache[k]) : k \in DOMAIN pointCache}

\* a commitment with its last bit flipped, and with its last byte missing
Altered(c) == {[c EXCEPT ![Len(c)] = flipBit(@, 0)], SubSeq(c, 1, Len(c) - 1)}

\* VoteCrypto.verifyPedersenCommitment(commitment, value, blinding), given
\* a commitment generatePedersenCommitment returned, or an altered one
VerifyPedersenCommitment ==
    /\ \E commitment \in Returned \cup UNION {Altered(c) : c \in Returned},
          value \in CommitValues, a \in Arrays :
          LET v == verifyPedersenCommitment(pointCache, blindingCache, heap,
                                            commitment, value, a)
          IN /\ pointCache' = v.pointCache
             /\ blindingCache' = v.blindingCache
             /\ lastCall' = [op |-> "verifyPedersenCommitment",
                              res |-> v.res]
    /\ UNCHANGED heap
    /\ UNCHANGED <<proofVars, objectVars, ledgerVars, curveVars, clientVars>>

NextCrypto ==
    \/ NewArray
    \/ MutateArray
    \/ GenerateBlinding
    \/ BytesToNumber
    \/ GeneratePedersenCommitment
    \/ VerifyPedersenCommitment

SpecCrypto == Init /\ [][NextCrypto]_vars


\* ----------------------------------------------------------------------
\* The verifier's curve operations, called on their own: one call, on
\* arguments of the caller's choice (the operations keep no state)
\* ----------------------------------------------------------------------
MaxExcess == 1

\* coordinates: the field elements and a few values from P on
Coordinates == 0..(P + MaxExcess)

\* points handed to the operations: the group, and pairs that are no point
\* (off the curve, y = 0, a coordinate that is no field element)
PointSamples ==
    GroupElems \cup {<<1, 3>>, <<0, 1>>, <<2, 0>>, <<P, 2>>, <<1, P + 2>>}

\* scalars handed to ecMul: two turns around the group and a little more
ScalarSamples == 0..(2 * N + MaxExcess)

EcDouble ==
    /\ curve.op = "none"
    /\ \E p \in PointSamples :
          curve' = [op |-> "ecDouble", p |-> p, r |-> ecDouble(p)]
    /\ UNCHANGED <<proofVars, objectVars, ledgerVars, cryptoVars, clientVars>>

EcAdd ==
    /\ curve.op = "none"
    /\ \E p1 \in PointSamples, p2 \in PointSamples :
          curve' = [op |-> "ecAdd", p1 |-> p1, p2 |-> p2, r |-> ecAdd(p1, p2)]
    /\ UNCHANGED <<proofVars, objectVars, ledgerVars, cryptoVars, clientVars>>

EcMul ==
    /\ curve.op = "none"
    /\ \E p \in PointSamples, k \in ScalarSamples :
          curve' = [op |-> "ecMul", p |-> p, k |-> k, r |-> ecMul(p, k)]
    /\ UNCHANGED <<proofVars, objectVars, ledgerVars, cryptoVars, clientVars>>

\* isOnCurve(x, y) on-chain, and ECUtils.isOnCurve on the point fromAffine
\* makes of the same coordinates (threw: no such point can be made)
IsOnCurve ==
    /\ curve.op = "none"
    /\ \E x \in Coordinates, y \in Coordinates :
          LET pt == fromAffine(x, y)
          IN curve' = [op |-> "isOnCurve", x |-> x, y |-> y,
                       on |-> isOnCurve(x, y),
                       threw |-> pt = Failed,
                       off |-> IF pt = Failed THEN FALSE
                               ELSE ECUtils_isOnCurve(pt)]
    /\ UNCHANGED <<proofVars, objectVars, ledgerVars, cryptoVars, clientVars>>

NextCurve ==
    \/ EcDouble
    \/ EcAdd
    \/ EcMul
    \/ IsOnCurve

SpecCurve == Init /\ [][NextCurve]_vars


\* ----------------------------------------------------------------------
\* Client: VotingContract's singleton, initialisation and submit lock.
\* A call runs from one await to the next in one step; the steps of the
\* calls in flight interleave.
\* ----------------------------------------------------------------------
\* voteKey = `${voteId}-${optionId}`
VoteKeys == {<<1, 1>>, <<1, 2>>}

\* the call of caller c moves on
Goto(c, call) == calls' = [calls EXCEPT ![c] = call]

\* VotingContract.initialize up to its first await, called within the call
\* op of caller c: it returns at once when the contract is set, throws when
\* window.ethereum is missing, and otherwise awaits provider.getSigner()
initializeStart(c, op, key, ethereum) ==
    IF contract
    THEN Goto(c, [pc |-> "initialized", op |-> op, key |-> key, ok |-> TRUE])
    ELSE IF ~ethereum
    THEN Goto(c, [pc |-> "initialized", op |-> op, key |-> key, ok |-> FALSE])
    ELSE Goto(c, [pc |-> "getSigner", op |-> op, key |-> key])

\* VotingContract.getInstance() by caller c
getInstance(c) ==
    /\ calls[c] = Idle
    /\ IF instance = "null"
       THEN /\ instance' = "created"
            /\ \E ethereum \in BOOLEAN :
                  initializeStart(c, "getInstance", <<>>, ethereum)
       ELSE /\ Goto(c, [pc |-> "done", op |-> "getInstance",
                        res |-> "instance", contractSet |-> contract])
            /\ instance' = "returned"
    /\ UNCHANGED <<contract, setups, submittingVotes>>

\* a public method that goes through getContract() (hasVoted, isSignedUp,
\* getCurrentPhase, ...) called on the instance by caller c
getContract(c) ==
    /\ calls[c] = Idle
    /\ instance = "returned"
    /\ \E ethereum \in BOOLEAN : initializeStart(c, "getContract", <<>>, ethereum)
    /\ UNCHANGED <<instance, contract, setups, submittingVotes>>

\* VotingContract.submitVote(voteId, optionId, proof) by caller c, up to
\* its first await
submitVote_Start(c) ==
    /\ calls[c] = Idle
    /\ instance = "returned"
    /\ \E key \in VoteKeys :
          IF key \in submittingVotes
          THEN /\ Goto(c, [pc |-> "done", op |-> "submitVote", key |-> key,
                           res |-> "duplicate"])
               /\ UNCHANGED submittingVotes
          ELSE /\ submittingVotes' = submittingVotes \cup {key}
               /\ \E ethereum \in BOOLEAN :
                     initializeStart(c, "submitVote", key, ethereum)
    /\ UNCHANGED <<instance, contract, setups>>

\* initialize after provider.getSigner() settled: on success the contract
\* is built and proofVerifier() is awaited
getSignerSettles(c) ==
    /\ calls[c].pc = "getSigner"
    /\ \E ok \in BOOLEAN :
          IF ok
          THEN /\ contract' = TRUE
               /\ Goto(c, [calls[c] EXCEPT !.pc = "proofVerifier"])
          ELSE /\ Goto(c, [pc |-> "initialized", op |-> calls[c].op,
                           key |-> calls[c].key, ok |-> FALSE])
               /\ UNCHANGED contract
    /\ UNCHANGED <<instance, setups, submittingVotes>>

\* initialize after contract.proofVerifier() settled: on success the
\* verifier is built, setupEventListeners and loadVotes run, and it returns
proofVerifierSettles(c) ==
    /\ calls[c].pc = "proofVerifier"
    /\ \E ok \in BOOLEAN :
          /\ setups' = IF ok THEN setups + 1 ELSE setups
          /\ Goto(c, [pc |-> "initialized", op |-> calls[c].op,
                      key |-> calls[c].key, ok |-> ok])
    /\ UNCHANGED <<instance, contract, submittingVotes>>

\* (a submitVote that awaits initialize() outside its try/finally)
initializeSettles_NoFinally(c) ==
    /\ calls[c].pc = "initialized"
    /\ LET call == calls[c]
       IN IF call.op = "getInstance"
          THEN /\ Goto(c, IF call.ok
                          THEN [pc |-> "done", op |-> "getInstance",
                                res |-> "instance", contractSet |-> contract]
                          ELSE [pc |-> "done", op |-> "getInstance",
                                res |-> "error"])
               /\ instance' = IF call.ok THEN "returned" ELSE instance
               /\ UNCHANGED submittingVotes
          ELSE IF call.op = "getContract"
          THEN /\ Goto(c, [pc |-> "done", op |-> "getContract",
                           res |-> IF call.ok /\ contract THEN "contract"
                                   ELSE "error"])
               /\ UNCHANGED <<instance, submittingVotes>>
          ELSE IF call.ok
          THEN /\ Goto(c, [pc |-> "submitting", op |-> "submitVote",
                           key |-> call.key])
               /\ UNCHANGED <<instance, submittingVotes>>
          ELSE /\ UNCHANGED submittingVotes
               /\ Goto(c, [pc |-> "done", op |-> "submitVote",
                           key |-> call.key, res |-> "error"])
               /\ UNCHANGED instance
    /\ UNCHANGED <<contract, setups>>

\* the call that awaited initialize() goes on: getInstance returns the
\* instance, getContract tests this.contract, submitVote goes on to its
\* checks and its transaction; a rejected initialize ends the call, in
\* submitVote through the finally block
initializeSettles(c) ==
    /\ calls[c].pc = "initialized"
    /\ LET call == calls[c]
       IN IF call.op = "getInstance"
          THEN /\ Goto(c, IF call.ok
                          THEN [pc |-> "done", op |-> "getInstance",
                                res |-> "instance", contractSet |-> contract]
                          ELSE [pc |-> "done", op |-> "getInstance",
                                res |-> "error"])
               /\ instance' = IF call.ok THEN "returned" ELSE instance
               /\ UNCHANGED submittingVotes
          ELSE IF call.op = "getContract"
          THEN /\ Goto(c, [pc |-> "done", op |-> "getContract",
                           res |-> IF call.ok /\ contract THEN "contract"
                                   ELSE "error"])
               /\ UNCHANGED <<instance, submittingVotes>>
          ELSE IF call.ok
          THEN /\ Goto(c, [pc |-> "submitting", op |-> "submitVote",
                           key |-> call.key])
               /\ UNCHANGED <<instance, submittingVotes>>
          ELSE /\ submittingVotes' = submittingVotes \ {call.key}
               /\ Goto(c, [pc |-> "done", op |-> "submitVote",
                           key |-> call.key, res |-> "error"])
               /\ UNCHANGED instance
    /\ UNCHANGED <<contract, setups>>

\* the rest of submitVote (its checks, the proof, the transaction and its
\* receipt) ends, by returning or by throwing, and the finally block runs
submitVote_Settles(c) ==
    /\ calls[c].pc = "submitting"
    /\ \E ok \in BOOLEAN :
          Goto(c, [pc |-> "done", op |-> "submitVote", key |-> calls[c].key,
                   res |-> IF ok THEN "submitted" ELSE "error"])
    /\ submittingVotes' = submittingVotes \ {calls[c].key}
    /\ UNCHANGED <<instance, contract, setups>>

\* the caller has taken the result of its call and may call again
taken(c) ==
    /\ calls[c].pc = "done"
    /\ Goto(c, Idle)
    /\ UNCHANGED <<instance, contract, setups, submittingVotes>>

OtherVars == <<proofVars, objectVars, ledgerVars, cryptoVars, curveVars>>

GetInstance == (\E c \in Callers : getInstance(c)) /\ UNCHANGED OtherVars
GetContract == (\E c \in Callers : getContract(c)) /\ UNCHANGED OtherVars
ClientSubmitVote ==
    (\E c \in Callers : submitVote_Start(c)) /\ UNCHANGED OtherVars
GetSignerSettles ==
    (\E c \in Callers : getSignerSettles(c)) /\ UNCHANGED OtherVars
ProofVerifierSettles ==
    (\E c \in Callers : proofVerifierSettles(c)) /\ UNCHANGED OtherVars
InitializeSettles ==
    (\E c \in Callers : initializeSettles(c)) /\ UNCHANGED OtherVars
ClientSubmitVoteSettles ==
    (\E c \in Callers : submitVote_Settles(c)) /\ UNCHANGED OtherVars
Taken == (\E c \in Callers : taken(c)) /\ UNCHANGED OtherVars

NextClient ==
    \/ GetInstance
    \/ GetContract
    \/ ClientSubmitVote
    \/ GetSignerSettles
    \/ ProofVerifierSettles
    \/ InitializeSettles
    \/ ClientSubmitVoteSettles
    \/ Taken

SpecClient == Init /\ [][NextClient]_vars

\* the promise the call of caller c awaits settles, and the event loop runs
\* the call's continuation
settles(c) ==
    /\ \/ getSignerSettles(c)
       \/ proofVerifierSettles(c)
       \/ initializeSettles(c)
       \/ submitVote_Settles(c)
    /\ UNCHANGED OtherVars

\* every awaited promise settles
SpecClientFair == SpecClient /\ \A c \in Callers : WF_vars(settles(c))


\* ----------------------------------------------------------------------
\* Properties
\* ----------------------------------------------------------------------
\* the contextIds a proof may be replayed against
ReplayIds == 0..(MaxVoteId + 1)

OnVerified == onOut.res # "none"
OffVerified == offOut.res # "none"

\* the six words of the proof in flight, read as big-endian integers
Word(w) == calldataload(proof, w)
LenOK == Len(proof) = SCHNORR_PROOF_LENGTH
CoordOutOfRange == LenOK /\ \E w \in 0..3 : Word(w) >= P
ScalarOutOfRange == LenOK /\ (Word(4) >= N \/ Word(5) >= N)
StructuralFailure == ~LenOK \/ CoordOutOfRange \/ ScalarOutOfRange

\* the curve test y^2 = x^3 + 3 (mod P) on field elements
SatisfiesCurve(x, y) ==
    x < P /\ y < P /\ (y * y) % P = (x * x * x + B) % P
PointC == <<Word(0), Word(1)>>
PointR == <<Word(2), Word(3)>>
PassesChecks ==
    /\ LenOK /\ ~CoordOutOfRange /\ ~ScalarOutOfRange
    /\ SatisfiesCurve(Word(0), Word(1))
    /\ SatisfiesCurve(Word(2), Word(3))

\* s*G + s'*H = R + e*C in the group, for a proof that passes the checks
EquationHolds(e) ==
    GroupAdd[GroupMul[G1, Word(4)], GroupMul[H, Word(5)]]
        = GroupAdd[PointR, GroupMul[PointC, e % N]]

\* how a caller sees an outcome: accepted, the ordinary result false, or an
\* error (a revert on-chain, a rejected promise off-chain)
Kind(out) == IF out.res \in {"revert", "throw"} THEN "error" ELSE out.res

\* the 5-word transcript R.x, R.y, C.x, C.y, contextId and its digest
Transcript ==
    mstoreWord(Word(2)) \o mstoreWord(Word(3)) \o mstoreWord(Word(0))
    \o mstoreWord(Word(1)) \o mstoreWord(voteId)
DigestModN == bytesToNumberBE(keccak256(Transcript)) % N

\* C1 -- Completeness: a proof built by generateVoteProof for (optionId,
\* voteId) and delivered unaltered is accepted by verifyProof called with the
\* same voteId.
C1_Completeness ==
    (honest /\ OffVerified) => offOut.res = "true"

\* C2 -- Bi-implementation agreement: on the same proof bytes and voteId the
\* on-chain and the off-chain verifier both accept, or both reject in the
\* same way (both with the result false, or both with an error).
C2_Agreement ==
    (OnVerified /\ OffVerified) => Kind(onOut) = Kind(offOut)

\* C3 -- For a proof that passes the structural and range checks, each
\* verifier returns true exactly when s*G + s'*H and R + e*C are the same
\* point, e being the challenge it recomputed, and false otherwise.
C3_VerifierEquation ==
    /\ (OnVerified /\ PassesChecks /\ voteId # 0)
          => onOut.res = IF EquationHolds(onOut.e) THEN "true" ELSE "false"
    /\ (OffVerified /\ PassesChecks /\ optionId > 0)
          => offOut.res = IF EquationHolds(offOut.e) THEN "true" ELSE "false"

\* C4 -- computeChallenge never returns 0, on-chain and off-chain: the
\* challenge lies in 1..N-1, and it is 1 when the digest is 0 modulo N.
C4_ChallengeNonZero ==
    /\ (OnVerified /\ onOut.hashed)
          => /\ onOut.e \in 1..(N - 1)
             /\ DigestModN = 0 => onOut.e = 1
    /\ (OffVerified /\ offOut.hashed)
          => /\ offOut.e \in 1..(N - 1)
             /\ DigestModN = 0 => offOut.e = 1

\* C5 -- computeChallenge is a function of (R, C, contextId) alone and the
\* two implementations agree: on the same inputs the on-chain and the
\* off-chain verifier compute the same challenge.
C5_ChallengeAgreement ==
    (OnVerified /\ OffVerified /\ onOut.hashed /\ offOut.hashed)
        => onOut.e = offOut.e

\* C6 -- Domain separation: a proof accepted for contextId A is not accepted
\* for a contextId B # A whose challenge differs from the one of A.
C6_DomainSeparation ==
    /\ onOut.res = "true" =>
          \A b \in ReplayIds :
              (b # voteId /\ computeChallenge(PointR, PointC, b) # onOut.e)
                  => verifyVoteProof(proof, b).res # "true"
    /\ offOut.res = "true" =>
          \A b \in ReplayIds :
              (b # voteId
               /\ ECUtils_computeChallenge(PointR, PointC, b) # offOut.e)
                  => verifyProof(proof, optionId, b).res # "true"

C6_Witness ==
    /\ onOut.res = "true" /\ offOut.res = "true"
    /\ \E b \in ReplayIds :
          /\ b # voteId /\ b # 0
          /\ computeChallenge(PointR, PointC, b) # onOut.e
          /\ ECUtils_computeChallenge(PointR, PointC, b) # offOut.e

\* C7 -- An input of the wrong length, or with a coordinate >= P, or with a
\* response scalar >= N, is rejected by both decoders before any hashing or
\* group arithmetic.
C7_DecodeRejects ==
    StructuralFailure =>
        /\ OnVerified => (onOut.res # "true" /\ ~onOut.hashed /\ ~onOut.arith)
        /\ OffVerified => (offOut.res # "true" /\ ~offOut.hashed /\ ~offOut.arith)

C7_Witness ==
    /\ OnVerified /\ OffVerified
    /\ LenOK /\ ~CoordOutOfRange /\ ScalarOutOfRange
    /\ SatisfiesCurve(Word(0), Word(1)) /\ SatisfiesCurve(Word(2), Word(3))

\* C8 -- The codec round-trips: re-encoding the decoded (C, R, s, s') of a
\* well-formed input with encodePoint / encodeScalar gives the same bytes,
\* and decoding what the prover encoded gives the tuple it encoded.
C8_CodecRoundTrip ==
    /\ (phase = "proved" /\ LenOK /\ ~CoordOutOfRange /\ ~ScalarOutOfRange)
          => encodePoint(decodePoint(proof, 0))
             \o encodePoint(decodePoint(proof, 2))
             \o encodeScalar(decodeScalar(proof, 4))
             \o encodeScalar(decodeScalar(proof, 5)) = proof
    /\ (phase = "proved" /\ honest)
          => /\ decodePoint(proof, 0) = sent.C
             /\ decodePoint(proof, 2) = sent.R
             /\ decodeScalar(proof, 4) = sent.s
             /\ decodeScalar(proof, 5) = sent.sPrime

C8_Witness ==
    /\ phase = "proved" /\ ~honest
    /\ LenOK /\ ~CoordOutOfRange /\ ~ScalarOutOfRange
    /\ Word(4) # sent.s /\ Word(4) > 0

\* C9 -- A proof whose C or R fails the curve test (the point (0,0)
\* included), or whose s or s' is >= N, is never accepted, and the on-chain
\* verifier reverts on it before computing the challenge.
FailsRangeChecks ==
    /\ LenOK
    /\ \/ ~SatisfiesCurve(Word(0), Word(1))
       \/ ~SatisfiesCurve(Word(2), Word(3))
       \/ Word(4) >= N
       \/ Word(5) >= N

C9_RejectsInvalidComponents ==
    FailsRangeChecks =>
        /\ OnVerified => (onOut.res = "revert" /\ ~onOut.hashed)
        /\ OffVerified => offOut.res # "true"

C9_Witness ==
    /\ OnVerified /\ OffVerified
    /\ LenOK /\ ~CoordOutOfRange /\ ~ScalarOutOfRange
    /\ SatisfiesCurve(Word(0), Word(1))
    /\ PointR = Infinity

\* C10 -- A structural failure is reported as an error, a verification
\* mismatch as the ordinary result false; the two never look alike.
C10_StructuralErrorDistinct ==
    /\ (OnVerified /\ StructuralFailure) => Kind(onOut) = "error"
    /\ (OffVerified /\ StructuralFailure) => Kind(offOut) = "error"
    /\ (OnVerified /\ PassesChecks /\ voteId # 0 /\ ~EquationHolds(onOut.e))
          => Kind(onOut) = "false"
    /\ (OffVerified /\ PassesChecks /\ optionId > 0 /\ ~EquationHolds(offOut.e))
          => Kind(offOut) = "false"

\* C11 -- The verifier entry points mutate no state: a step in which
\* verifyVoteProof produced an outcome (accept, reject or revert) leaves the
\* verifier's stored point H and all ledger storage unchanged, and a step in
\* which verifyProof produced an outcome leaves every field of the VoteProof
\* object unchanged.
C11_VerifierFrame ==
    [][/\ (onOut' # onOut => /\ verifierH' = verifierH
                             /\ votes' = votes
                             /\ totalVoteProjects' = totalVoteProjects
                             /\ signedUpVoters' = signedUpVoters)
       /\ (offOut' # offOut => thisVoteProof' = thisVoteProof)]_vars

\* both verifiers have run on a proof, one accepting call and the stored
\* point is still the constructor's
C11_Witness ==
    /\ onOut.res = "true"
    /\ offOut.res \in {"true", "false"}
    /\ verifierH = H

\* C12 -- When the verifier returns false or fails with a structural error
\* for the supplied proof, submitVote rejects the submission and records
\* nothing: in every reachable ledger state, for every sender, vote id,
\* option id and proof, the call reverts and votesReceived, totalVotes and
\* hasVoted of every vote are what they were.
C12_RejectedProofRecordsNothing ==
    \A sender \in Senders, _voteId \in LedgerVoteIds,
       _optionId \in 0..(MaxOptionCount + 1), _proof \in ProofPool :
       proofVerifier[_proof, _voteId] # "true"
       => LET r == submitVote(votes, sender, _voteId, _optionId, _proof, timestamp)
          IN r.res # "ok" /\ r.votes = votes

\* a vote in its voting phase has recorded one sender's vote, and the other
\* sender's submission is turned away both with a proof the verifier answers
\* false to and with one it reverts on, while a third proof would be recorded
C12_Witness ==
    \E v \in LedgerVoteIds, sender \in Senders :
       /\ getCurrentPhase(votes, v, timestamp) = "Voting"
       /\ votes[v].totalVotes = 1
       /\ sender \notin votes[v].hasVoted
       /\ \E p \in ProofPool :
             /\ proofVerifier[p, v] = "false"
             /\ submitVote(votes, sender, v, 1, p, timestamp).res = "revert:proof"
       /\ \E p \in ProofPool :
             /\ proofVerifier[p, v] = "revert"
             /\ submitVote(votes, sender, v, 1, p, timestamp).res = "revert:verifier"
       /\ \E p \in ProofPool : submitVote(votes, sender, v, 1, p, timestamp).res = "ok"

\* C13 -- The prover rejects a secret value outside the allowed domain:
\* once generateVoteProof has been called with optionId <= 0 (in particular
\* 0) or optionId >= N, the call has failed and there is no proof.
C13_ProverRejectsOutOfDomain ==
    (phase # "idle" /\ (optionId <= 0 \/ optionId >= N))
    => (phase = "failed" /\ proof = <<>> /\ sent = NoTuple)

\* the prover was called with optionId = N and failed
C13_Witness == phase = "failed" /\ optionId = N

\* C14 -- generateBlinding makes at most GENERATION_ATTEMPTS attempts and
\* ends in one of two ways: it throws, or it returns WordBytes bytes whose
\* big-endian value lies in [1, N-1] (never 0, never N or more).
C14_BlindingBoundedAndInRange ==
    lastCall.op = "generateBlinding" =>
        /\ lastCall.attempts \in 1..GENERATION_ATTEMPTS
        /\ \/ lastCall.res = "throw"
           \/ /\ lastCall.res = "ok"
              /\ Len(lastCall.result) = WordBytes
              /\ bytesToNumberBE(lastCall.result) \in 1..(N - 1)

\* the last attempt allowed is the one that succeeds
C14_Witness ==
    /\ lastCall.op = "generateBlinding"
    /\ lastCall.res = "ok"
    /\ lastCall.attempts = GENERATION_ATTEMPTS
    /\ bytesToNumberBE(lastCall.result) = 2

\* C15 -- Hiding: two commitments generatePedersenCommitment has returned
\* for the same value and for blinding arrays of different contents are
\* different points.  (Every returned point is kept in pointCache under the
\* value and the contents it was asked for.)
C15_DistinctBlindingsDistinctCommitments ==
    \A k1 \in DOMAIN pointCache, k2 \in DOMAIN pointCache :
        (k1[1] = k2[1] /\ k1[2] # k2[2]) => pointCache[k1] # pointCache[k2]

\* values a commitment is opened for: rejected, in range, brought into range
OpenValues == {0, 1, 2, N}

\* C16 -- Opening: whenever generatePedersenCommitment(v, r) succeeds,
\* verifyPedersenCommitment called next with the returned bytes, v and r
\* returns true; and verifyPedersenCommitment returns false for a commitment
\* that differs from the recomputed one in a byte or in length (an altered
\* one, or one returned earlier for other arguments).
C16_OpeningCorrect ==
    /\ lastCall.op = "verifyPedersenCommitment" => lastCall.res \in BOOLEAN
    /\ \A a \in Arrays, value \in OpenValues :
          LET g == generatePedersenCommitment(pointCache, blindingCache, heap,
                                              value, a)
          IN g.res = "ok" =>
               /\ verifyPedersenCommitment(g.pointCache, g.blindingCache, heap,
                                           g.out, value, a).res
               /\ \A c \in Altered(g.out) \cup (Returned \ {g.out}) :
                     ~verifyPedersenCommitment(g.pointCache, g.blindingCache,
                                               heap, c, value, a).res

\* a commitment was opened after commitments were made for two contents
C16_Witness ==
    /\ lastCall.op = "verifyPedersenCommitment"
    /\ lastCall.res
    /\ Cardinality(DOMAIN pointCache) > 1

\* C17 -- The caches do not change results: in every state reached by
\* generateBlinding, bytesToNumber, generatePedersenCommitment and
\* verifyPedersenCommitment calls and by overwriting arrays, a call of
\* generatePedersenCommitment(value, blinding) ends as it would with empty
\* pointCache and blindingCache: it throws in both or returns the same bytes.
C17_CachesDoNotChangeResults ==
    \A a \in Arrays, value \in OpenValues :
        LET cached == generatePedersenCommitment(pointCache, blindingCache,
                                                 heap, value, a)
            fresh == generatePedersenCommitment(<<>>, <<>>, heap, value, a)
        IN /\ cached.res = fresh.res
           /\ cached.res = "ok" => cached.out = fresh.out

\* C18 -- A blinding array whose contents are the big-endian bytes of 0 or
\* of an integer >= N makes generatePedersenCommitment throw, whatever the
\* value and the state of the caches.
C18_OutOfRangeBlindingThrows ==
    \A a \in Arrays, value \in OpenValues :
        (bytesToNumberBE(heap[a]) = 0 \/ bytesToNumberBE(heap[a]) >= N) =>
            generatePedersenCommitment(pointCache, blindingCache, heap,
                                       value, a).res = "throw"

\* C19 -- The verification outcome is a function of the proof bytes and the
\* vote id alone: verifyProof gives the same result for any two option
\* identifiers.  (The on-chain check, verifyVoteProof(proof, voteId), is not
\* given the option identifier.)
C19_OutcomeIgnoresOption ==
    phase = "proved" =>
        \A o1 \in OptionIds, o2 \in OptionIds :
            verifyProof(proof, o1, voteId).res = verifyProof(proof, o2, voteId).res

\* C20 -- A proof is accepted at most once per vote: no two submissions
\* that submitVote has recorded for the same vote carry the same proof.
C20_ProofConsumedOnce ==
    \A x \in accepted, y \in accepted :
        (x.voteId = y.voteId /\ x.proof = y.proof) => x = y

\* C21 -- Doubling stays on the curve and agrees with multiplication: for an
\* on-curve point p, ecDouble(p) is (0,0) or satisfies y^2 = x^3 + 3 (mod P),
\* and ecAdd(p, p) = ecMul(p, 2).
C21_DoubleOnCurve ==
    (curve.op = "ecDouble" /\ isOnCurve(curve.p[1], curve.p[2])) =>
        /\ curve.r = Infinity \/ isOnCurve(curve.r[1], curve.r[2])
        /\ ecAdd(curve.p, curve.p) = ecMul(curve.p, 2)

\* C22 -- The cases of ecAdd(p1, p2), in this order: p2 when p1 is (0,0);
\* p1 when p2 is (0,0); ecDouble(p1) when p1 = p2; (0,0) when the x are
\* equal and the y differ; otherwise the group sum when both are curve
\* points, and a revert when one is not.
C22_AddCases ==
    curve.op = "ecAdd" =>
        LET p1 == curve.p1
            p2 == curve.p2
        IN IF p1 = Infinity THEN curve.r = p2
           ELSE IF p2 = Infinity THEN curve.r = p1
           ELSE IF p1 = p2 THEN curve.r = ecDouble(p1)
           ELSE IF p1[1] = p2[1] THEN curve.r = Infinity
           ELSE IF p1 \in CurvePoints /\ p2 \in CurvePoints
           THEN curve.r = GroupAddRaw(p1, p2) /\ curve.r \in CurvePoints
           ELSE curve.r = Failed

\* two curve points of different x were added
C22_Witness ==
    /\ curve.op = "ecAdd"
    /\ curve.p1 \in CurvePoints /\ curve.p2 \in CurvePoints
    /\ curve.p1[1] # curve.p2[1]
    /\ curve.r \in CurvePoints

\* C23 -- ecMul(p, k) = ecMul(p, k mod N); the result is (0,0) when
\* k mod N = 0 or p is (0,0), and p itself when k mod N = 1; in every other
\* case ecMul reverts or returns a point that satisfies isOnCurve.
C23_MulCases ==
    curve.op = "ecMul" =>
        LET p == curve.p
            k == curve.k
        IN /\ curve.r = ecMul(p, k % N)
           /\ (k % N = 0 \/ p = Infinity) => curve.r = Infinity
           /\ (k % N = 1 /\ p # Infinity) => curve.r = p
           /\ (k % N > 1 /\ p # Infinity) =>
                 curve.r = Failed \/ isOnCurve(curve.r[1], curve.r[2])

\* a curve point was multiplied by a scalar above N that does not reduce to
\* 0 or 1
C23_Witness ==
    /\ curve.op = "ecMul"
    /\ curve.p \in CurvePoints
    /\ curve.k > N /\ curve.k % N > 1
    /\ curve.r = GroupMul[curve.p, curve.k % N]
    /\ curve.r \in CurvePoints

\* C24 -- isOnCurve(x, y) is true exactly when x < P, y < P and
\* y^2 = x^3 + 3 (mod P); ECUtils.isOnCurve returns the same boolean on the
\* point of the same coordinates (coordinates that are no field elements
\* make no point, and are off the curve on-chain); both are false for (0,0).
C24_IsOnCurve ==
    curve.op = "isOnCurve" =>
        LET x == curve.x
            y == curve.y
        IN /\ curve.on <=> (x < P /\ y < P
                              /\ (y * y) % P = (x * x * x + 3) % P)
           /\ ~curve.threw => (curve.off <=> curve.on)
           /\ curve.threw => (~curve.on /\ (x >= P \/ y >= P))
           /\ (x = 0 /\ y = 0) => (~curve.on /\ ~curve.off /\ ~curve.threw)

\* a point of the curve other than the generator, accepted by both
C24_Witness ==
    /\ curve.op = "isOnCurve"
    /\ curve.on /\ curve.off
    /\ curve.x > 1

\* C25 -- For every vote createVote has stored and every block time t,
\* getCurrentPhase answers without reverting: Voting exactly when
\* startTime <= t <= endTime, Registration exactly when
\* startTime - 2 days <= t < startTime, Ended otherwise; and a submitVote
\* that records a vote is made while the phase is Voting.
C25_PhaseOfEveryVote ==
    \A _voteId \in LedgerVoteIds :
        votes[_voteId].id > 0 =>
            LET voteData == votes[_voteId]
            IN /\ \A t \in Times :
                     getCurrentPhase(votes, _voteId, t) =
                         IF voteData.startTime <= t /\ t <= voteData.endTime
                         THEN "Voting"
                         ELSE IF voteData.startTime - TwoDays <= t
                                 /\ t < voteData.startTime
                         THEN "Registration"
                         ELSE "Ended"
               /\ \A sender \in Senders, _optionId \in OptionSlots,
                     _proof \in ProofPool :
                     submitVote(votes, sender, _voteId, _optionId, _proof,
                                timestamp).res = "ok"
                         => (voteData.startTime <= timestamp
                             /\ timestamp <= voteData.endTime)

\* the submissions recorded for a vote
AcceptedFor(_voteId) == {x \in accepted : x.voteId = _voteId}

\* C26 -- One vote per voter: for each vote every address has at most one
\* recorded submission (and the vote's counter has counted no more than
\* these); an address with a recorded submission has its hasVoted flag set,
\* and every submitVote it sends for that vote now is rejected.
C26_OneVotePerVoter ==
    \A _voteId \in LedgerVoteIds :
        /\ \A x \in AcceptedFor(_voteId), y \in AcceptedFor(_voteId) :
              x.sender = y.sender => x = y
        /\ votes[_voteId].totalVotes = Cardinality(AcceptedFor(_voteId))
        /\ \A x \in AcceptedFor(_voteId) : x.sender \in votes[_voteId].hasVoted
        /\ \A sender \in votes[_voteId].hasVoted,
              _optionId \in 0..(MaxOptionCount + 1), _proof \in ProofPool :
              submitVote(votes, sender, _voteId, _optionId, _proof,
                         timestamp).res # "ok"

\* a voter who has voted sends a valid option and a valid proof again while
\* the vote is open, and is refused for having voted
C26_Witness ==
    \E _voteId \in LedgerVoteIds, _proof \in ProofPool :
        /\ proofVerifier[_proof, _voteId] = "true"
        /\ \E sender \in votes[_voteId].hasVoted :
              submitVote(votes, sender, _voteId, 1, _proof, timestamp).res
                  = "revert:voted"

RECURSIVE SumReceived(_, _)
\* votesReceived summed over the options 1..n
SumReceived(received, n) ==
    IF n = 0 THEN 0 ELSE received[n] + SumReceived(received, n - 1)

TallyConsistent ==
    \A _voteId \in LedgerVoteIds :
        /\ votes[_voteId].totalVotes =
               SumReceived(votes[_voteId].votesReceived, votes[_voteId].optionCount)
        /\ votes[_voteId].totalVotes = Cardinality(votes[_voteId].hasVoted)

NoCounterDecreases ==
    /\ totalVoteProjects' >= totalVoteProjects
    /\ \A _voteId \in LedgerVoteIds :
          /\ votes'[_voteId].totalVotes >= votes[_voteId].totalVotes
          /\ votes'[_voteId].voterCount >= votes[_voteId].voterCount
          /\ \A o \in OptionSlots :
                votes'[_voteId].votesReceived[o] >= votes[_voteId].votesReceived[o]

\* C27 -- Tally consistency: in every reachable state and for every vote,
\* totalVotes equals the sum of votesReceived over the options
\* 1..optionCount and equals the number of addresses whose hasVoted flag is
\* set; and no step makes a counter smaller.
C27_TallyConsistent == []TallyConsistent /\ [][NoCounterDecreases]_vars

\* two addresses have voted on one vote
C27_Witness ==
    \E _voteId \in LedgerVoteIds :
        /\ votes[_voteId].totalVotes = 2
        /\ Cardinality(votes[_voteId].hasVoted) = 2

\* C28 -- Only registered voters vote: in every reachable state every
\* address whose hasVoted flag is set for a vote has signed up for that vote,
\* and totalVotes <= voterCount.
C28_VotersAreSignedUp ==
    \A _voteId \in LedgerVoteIds :
        /\ \A sender \in votes[_voteId].hasVoted :
              <<_voteId, sender>> \in signedUpVoters
        /\ votes[_voteId].totalVotes <= votes[_voteId].voterCount

\* caller c has a submitVote for key in flight (past the lock, not ended)
InFlight(c, key) ==
    /\ calls[c].pc \in {"getSigner", "proofVerifier", "initialized", "submitting"}
    /\ calls[c].op = "submitVote"
    /\ calls[c].key = key

\* at most one call per key is in flight, and the key is in submittingVotes
\* exactly while one is
LockMatchesCalls ==
    \A key \in VoteKeys :
        /\ \A c \in Callers, d \in Callers :
              (InFlight(c, key) /\ InFlight(d, key)) => c = d
        /\ key \in submittingVotes <=> \E c \in Callers : InFlight(c, key)

\* a submitVote started while its key is locked ends at once with the
\* duplicate-submission error and leaves the lock alone
DuplicateFailsAtOnce ==
    \A c \in Callers, key \in VoteKeys :
        (/\ calls[c] = Idle
         /\ calls'[c] # Idle
         /\ calls'[c].op = "submitVote"
         /\ calls'[c].key = key
         /\ key \in submittingVotes)
            => /\ calls'[c] = [pc |-> "done", op |-> "submitVote",
                               key |-> key, res |-> "duplicate"]
               /\ submittingVotes' = submittingVotes

C30_InitialisedOnce ==
    /\ setups <= 1
    /\ \A c \in Callers :
          (/\ calls[c].pc = "done" /\ calls[c].op = "getInstance"
           /\ calls[c].res = "instance") => calls[c].contractSet

=============================================================================
